---- MODULE Spec2Model ----
(***************************************************************************)
(* Soft Actor-Critic agent (src/src/models.py) and its training loop       *)
(* (src/src/train.py).                                                     *)
(*                                                                         *)
(* Abstraction.  A network's parameters() is an ordered list of tensors;   *)
(* here it is an ordered list of NumParams numbers (a weight followed by a *)
(* bias).  Trained parameters are integers, target parameters are exact    *)
(* rationals <<num, den>> because soft_copy blends them with tau.  Float   *)
(* rounding and tensor shapes are not modelled; Python attribute lookups   *)
(* (optimizers created only by init_opt, the class attribute SAC.actor,    *)
(* a writer that is None) are.  A gradient step is an arbitrary new value  *)
(* for every parameter the optimizer holds and that received a gradient.   *)
(*                                                                         *)
(* Five specifications:                                                    *)
(*   SpecSAC    a client calling the methods of one constructed SAC agent  *)
(*   SpecCycle  a client calling init_opt and update_SAC                   *)
(*   SpecCritic a client calling soft_copy and calc_critic_loss            *)
(*   Spec       train(args): the episode loop driving update_SAC           *)
(*   SpecReplay a ReplayBuffer receiving store_transition calls            *)
(***************************************************************************)
EXTENDS Integers, Sequences, FiniteSets, TLC

\* ---------------------------------------------------------------- bounds
NumParams == 2          \* tensors per network: a weight, then a bias
MaxWeight == 1          \* weights are drawn from 0..MaxWeight
MaxSoftCopies == 2      \* soft_copy calls per behaviour of SpecSAC
MaxOps == 2             \* method calls per behaviour of SpecSAC
MaxLogAlpha == 1        \* log_alpha is drawn from 0..MaxLogAlpha
MaxReward == 1          \* rewards are drawn from 0..MaxReward
MaxBatch == 3           \* batch_size is drawn from 1..MaxBatch
MaxInput == 1           \* a batch row's state, action and log-probability
TimeLimit == 3          \* steps per episode: range(1000), scaled down
MaxEpisodes == 1        \* args.num_episodes is drawn from 0..MaxEpisodes
MaxThreshold == 0       \* env.spec.reward_threshold is drawn from 0..MaxThreshold
MaxCapacity == 3        \* capacity of the buffer of SpecReplay
MaxIds == 4             \* transitions stored per behaviour of SpecReplay

\* ------------------------------------------------------------- constants
BiasInit == 1           \* bias.data.fill_(1 / n), in units of 1 / n
LogInterval == 100      \* update_SAC(..., log_interval=100)
ScoreWindow == 100      \* np.mean(scores[-100:])
ReplayCapacity == 1000000   \* ReplayBuffer(1_000_000)

\* ------------------------------------------------------------ arithmetic
Abs(x) == IF x < 0 THEN -x ELSE x

Min(a, b) == IF a <= b THEN a ELSE b

RECURSIVE GCD(_, _)
GCD(a, b) == IF b = 0 THEN a ELSE GCD(b, a % b)

\* a rational <<n, d>>, d > 0, in lowest terms
Norm(n, d) == LET g == GCD(Abs(n), d) IN IF g = 0 THEN <<0, 1>> ELSE <<n \div g, d \div g>>

ToRat(i) == <<i, 1>>

RatAdd(a, b) == Norm(a[1] * b[2] + b[1] * a[2], a[2] * b[2])

RatMul(a, b) == Norm(a[1] * b[1], a[2] * b[2])

RatOneMinus(a) == Norm(a[2] - a[1], a[2])

\* exp, to base 2: a positive, strictly increasing function of its argument
Exp(k) == 2 ^ k

RECURSIVE SumSeq(_)
SumSeq(q) == IF q = <<>> THEN 0 ELSE q[1] + SumSeq(Tail(q))

Weights == 0 .. MaxWeight

LogAlphas == 0 .. MaxLogAlpha

\* tau is a constructor argument (default 1e-2); the claims cover (0, 1]
TauVals == {<<1, 100>>, <<1, 2>>, <<1, 1>>}

ParamVecs == [1 .. NumParams -> Weights]

\* nn.init.xavier_uniform_ draws the weight from a bounded interval (here
\* 0 .. 1); the bias is filled with a constant
InitVecs == {p \in ParamVecs : p[1] \in 0 .. 1 /\ \A i \in 2 .. NumParams : p[i] = BiasInit}

\* SAC(env, tau=1e-2)
DefaultTau == <<1, 100>>

RatVec(p) == [i \in 1 .. NumParams |-> ToRat(p[i])]

NoOpts == [q1_opt |-> {}, q2_opt |-> {}, actor_opt |-> {}, entropy_opt |-> {}, created |-> FALSE]

\* ------------------------------------------------------------- SAC agent
\* SAC.__init__: four independently initialised critics, no optimizer
SACInit(q1, q2, t1, t2, tau0) ==
  [ soft_q1 |-> q1, soft_q2 |-> q2,
    tgt_q1 |-> RatVec(t1), tgt_q2 |-> RatVec(t2),
    tgt_requires_grad |-> [n \in {"tgt_q1", "tgt_q2"} |-> TRUE],
    opts |-> NoOpts,
    log_alpha |-> 0, alpha |-> Exp(0),
    actor_rewards |-> 0, loss_history |-> 0,
    tau |-> tau0 ]

init_opt_tgt(s) ==
  [s EXCEPT !.opts = [q1_opt |-> {"tgt_q1"}, q2_opt |-> {"tgt_q2"},
                      actor_opt |-> {"actor"}, entropy_opt |-> {"log_alpha"},
                      created |-> TRUE]]

init_opt(s) ==
  [s EXCEPT !.opts = [q1_opt |-> {"soft_q1"}, q2_opt |-> {"soft_q2"},
                      actor_opt |-> {"actor"}, entropy_opt |-> {"log_alpha"},
                      created |-> TRUE]]

freeze_tgt_networks(s) ==
  [s EXCEPT !.tgt_q1 = RatVec(s.soft_q1), !.tgt_q2 = RatVec(s.soft_q2),
            !.tgt_requires_grad = [n \in {"tgt_q1", "tgt_q2"} |-> FALSE]]

\* target_param.data * (1.0 - tau) + param.data * tau
Polyak_swapped(t, p, tau0) == RatAdd(RatMul(t, tau0), RatMul(ToRat(p), RatOneMinus(tau0)))

Polyak(t, p, tau0) == RatAdd(RatMul(t, RatOneMinus(tau0)), RatMul(ToRat(p), tau0))

soft_copy(s) ==
  [s EXCEPT !.tgt_q1 = [i \in 1 .. NumParams |-> Polyak(s.tgt_q1[i], s.soft_q1[i], s.tau)],
            !.tgt_q2 = [i \in 1 .. NumParams |-> Polyak(s.tgt_q2[i], s.soft_q2[i], s.tau)]]


\* an optimizer step changes the parameters it holds that received a gradient
Step(s, held, grads, new) ==
  LET ch == held \cap grads IN
  [s EXCEPT !.soft_q1 = IF "soft_q1" \in ch THEN new ELSE @,
            !.soft_q2 = IF "soft_q2" \in ch THEN new ELSE @,
            !.tgt_q1 = IF "tgt_q1" \in ch THEN RatVec(new) ELSE @,
            !.tgt_q2 = IF "tgt_q2" \in ch THEN RatVec(new) ELSE @]

\* The possible outcomes of update_critics, one for each result of the two
\* gradient steps.  q1_loss and q2_loss reach soft_q1 and soft_q2 only:
\* target_q_value is computed under torch.no_grad()
update_critics(s) ==
  IF ~s.opts.created
  THEN {[sac |-> s, err |-> "AttributeError: q1_opt"]}
  ELSE {[sac |-> Step(Step(s, s.opts.q1_opt, {"soft_q1"}, new1),
                      s.opts.q2_opt, {"soft_q2"}, new2),
         err |-> "none"] : new1 \in ParamVecs, new2 \in ParamVecs}

\* SoftQNetwork.forward on one batch row: weight times the concatenated
\* input, plus bias
SoftQForward(p, state, action) == p[1] * (state + action) + p[2]

\* Actor.evaluate and DiscreteActor.evaluate on one batch row: the sampled
\* action first, its log-probability second, then z, mean, log_std
evaluate(action, log_prob) == <<action, log_prob, 0, 0, 0>>

\* log_probs, actions, _, _, _ = self.actor.evaluate(states)
calc_actor_loss(s, state, ev) ==
  LET log_probs == ev[1]
      actions == ev[2]
      q1 == SoftQForward(s.soft_q1, state, actions)
      q2 == SoftQForward(s.soft_q1, state, actions)
      min_q == Min(q1, q2)
  IN [min_q |-> min_q, policy_loss |-> s.alpha * log_probs - min_q, log_probs |-> log_probs]

\* SAC(env, gamma=0.99)
Gamma == <<99, 100>>

RatNeg(a) == <<-a[1], a[2]>>

RatMin(a, b) == IF a[1] * b[2] <= b[1] * a[2] THEN a ELSE b

\* SoftQNetwork.forward of a target critic, whose parameters are rationals
TgtQForward(p, state, action) == RatAdd(RatMul(p[1], ToRat(state + action)), p[2])

\* calc_critic_loss on one batch row.  target_q is the critic target; the
\* two losses are the mean squares of residual1 and residual2.
calc_critic_loss(s, state, action, reward, next_state, done, ev) ==
  LET next_probs == ev[1]
      next_actions == ev[2]
      next_q1 == TgtQForward(s.tgt_q1, next_state, next_actions)
      next_q2 == TgtQForward(s.tgt_q2, next_state, next_actions)
      min_q_next == RatAdd(RatMin(next_q1, next_q2), ToRat(-(s.alpha * next_probs)))
      target_q_value == RatAdd(ToRat(reward),
                               RatMul(ToRat(1 - done), RatMul(Gamma, min_q_next)))
      p_q1 == SoftQForward(s.soft_q1, state, action)
      p_q2 == SoftQForward(s.soft_q2, state, action)
  IN [target_q |-> target_q_value,
      residual1 |-> RatAdd(ToRat(p_q1), RatNeg(target_q_value)),
      residual2 |-> RatAdd(ToRat(p_q2), RatNeg(target_q_value))]

\* zero_grad and backward run, then SAC.actor (a class attribute that does
\* not exist) raises before actor_opt.step()
update_actor(s) ==
  IF ~s.opts.created
  THEN [sac |-> s, err |-> "AttributeError: actor_opt"]
  ELSE [sac |-> s, err |-> "AttributeError: SAC.actor"]

\* the possible outcomes of update_entropy, one for each result of the step
update_entropy(s) ==
  IF ~s.opts.created
  THEN {[sac |-> s, err |-> "AttributeError: entropy_opt"]}
  ELSE {[sac |-> [s EXCEPT !.log_alpha = IF "log_alpha" \in s.opts.entropy_opt
                                          THEN new_log_alpha ELSE @,
                           !.alpha = Exp(IF "log_alpha" \in s.opts.entropy_opt
                                         THEN new_log_alpha ELSE s.log_alpha)],
         err |-> "none"] : new_log_alpha \in LogAlphas}


\* -------------------------------------------------------- update cycle
Rewards == 0 .. MaxReward

\* a reward handed to the critic loss: the sampled number r itself, or
\* (r - mean) / (std + eps) kept as num = n * (r - mean) and
\* var = n * (n - 1) * std^2, both exact integers
Raw(r) == [normalized |-> FALSE, num |-> r, var |-> 0]

\* reward.std() is the unbiased estimator: NaN on fewer than two elements,
\* 0 on two or more equal elements
StdIsNaN(rs) == Len(rs) < 2

NormalizeRewards(rs) ==
  IF ~StdIsNaN(rs)
  THEN LET n == Len(rs)
           sum == SumSeq(rs)
           sumsq == SumSeq([i \in 1 .. n |-> rs[i] * rs[i]])
       IN [i \in 1 .. n |-> [normalized |-> TRUE, num |-> n * rs[i] - sum,
                             var |-> n * sumsq - sum * sum]]
  ELSE [i \in 1 .. Len(rs) |-> Raw(rs[i])]

\* One call of update_SAC: the set of its possible outcomes, one for each
\* result of the gradient steps.  trace lists the calls that returned; err is
\* the exception that ended the call, or "none".
update_SAC(s, rewards, step0, writer) ==
  LET reward == NormalizeRewards(rewards)
      out(s1, tr, e) == [sac |-> s1, trace |-> tr, err |-> e, critic_rewards |-> reward]
      t1 == <<"sample", "calc_critic_loss">>
      t2 == t1 \o <<"update_critics", "calc_actor_loss">>
      t3 == t2 \o <<"update_actor", "calc_entropy_tuning_loss">>
      t4 == t3 \o <<"update_entropy", "soft_copy">>
      logging == step0 % LogInterval = 0
      tail(ue) ==
        LET sc == soft_copy(ue.sac) IN
        IF logging /\ writer = "None"
        THEN out(sc, t4, "AttributeError: add_scalar")
        ELSE out([sc EXCEPT !.loss_history = @ + 1, !.actor_rewards = 0],
                 IF logging THEN t4 \o <<"add_scalar">> ELSE t4, "none")
      after_critics(uc) ==
        LET ua == update_actor(uc.sac) IN
        IF ua.err # "none" THEN {out(ua.sac, t2, ua.err)}
        ELSE {IF ue.err # "none" THEN out(ue.sac, t3, ue.err) ELSE tail(ue)
              : ue \in update_entropy(ua.sac)}
  IN UNION {IF uc.err # "none" THEN {out(uc.sac, t1, uc.err)} ELSE after_critics(uc)
            : uc \in update_critics(s)}

\* ---------------------------------------------------------- ReplayBuffer
Transitions == [id : Nat, reward : Rewards, done : BOOLEAN]

ReplayBuffer(cap) == [capacity |-> cap, memory |-> <<>>, position |-> 0]

store_transition_grow(buf, t) ==
  [buf EXCEPT !.memory = Append(@, t), !.position = (@ + 1) % buf.capacity]

store_transition(buf, t) ==
  IF Len(buf.memory) < buf.capacity
  THEN [buf EXCEPT !.memory = Append(@, t), !.position = (@ + 1) % buf.capacity]
  ELSE [buf EXCEPT !.memory[buf.position + 1] = t, !.position = (@ + 1) % buf.capacity]

len(buf) == Len(buf.memory)

\* batch_size independent uniform draws, with replacement
sample(buf, batch_size) ==
  {[i \in 1 .. batch_size |-> buf.memory[ix[i]]] : ix \in [1 .. batch_size -> 1 .. len(buf)]}

\* ------------------------------------------------------------- variables
VARIABLES
  sac,        \* the SAC agent
  op,         \* the last method or loop step executed
  err,        \* the exception it raised, or "none"
  obs,        \* what it was called with and what it returned
  nops,       \* SpecSAC: number of method calls so far
  ncopies,    \* SpecSAC: number of soft_copy calls so far
  replay,     \* the ReplayBuffer
  inserted,   \* ids passed to store_transition, in call order
  pc,         \* train: position in the loop
  episode,    \* train: index of the current episode
  time,       \* train: index of the current step of the episode
  step,       \* train: number of completed steps, over all episodes
  scores,     \* train: final step index of each finished episode
  args,       \* train: num_episodes, batch_size, log_dir
  writer,     \* train: "SummaryWriter", or "None" when args.log_dir is None
  reward_threshold  \* env.spec.reward_threshold

agentVars == <<sac, op, err, obs, nops, ncopies>>

bufVars == <<replay, inserted>>

trainVars == <<pc, episode, time, step, scores, args, writer, reward_threshold>>

vars == <<sac, op, err, obs, nops, ncopies, replay, inserted,
          pc, episode, time, step, scores, args, writer, reward_threshold>>

NoObs == [kind |-> "none"]

Writers == {"None", "SummaryWriter"}

\* rewards of the one-row batches a client may hand to update_SAC
RewardBatches == [1 .. 1 -> Rewards]

ConstructedSAC(taus) ==
  \E q1 \in InitVecs, q2 \in InitVecs, t1 \in InitVecs, t2 \in InitVecs, tau0 \in taus :
    sac = SACInit(q1, q2, t1, t2, tau0)

\* ------------------------------------------- SpecSAC: a client of one SAC
InitSAC ==
  /\ ConstructedSAC(TauVals)
  /\ op = "__init__"
  /\ err = "none"
  /\ obs = NoObs
  /\ nops = 0
  /\ ncopies = 0
  /\ replay = ReplayBuffer(ReplayCapacity)
  /\ inserted = <<>>
  /\ pc = "idle"
  /\ episode = 0
  /\ time = 0
  /\ step = 0
  /\ scores = <<>>
  /\ args = [num_episodes |-> 0, batch_size |-> 1, log_dir |-> "None"]
  /\ writer = "None"
  /\ reward_threshold = 0

Call(name) ==
  /\ nops < MaxOps
  /\ nops' = nops + 1
  /\ op' = name
  /\ UNCHANGED <<bufVars, trainVars>>

InitOpt ==
  /\ Call("init_opt")
  /\ sac' = init_opt(sac)
  /\ err' = "none"
  /\ obs' = NoObs
  /\ UNCHANGED ncopies

FreezeTgtNetworks ==
  /\ Call("_freeze_tgt_networks")
  /\ sac' = freeze_tgt_networks(sac)
  /\ err' = "none"
  /\ obs' = NoObs
  /\ UNCHANGED ncopies

SoftCopy ==
  /\ Call("soft_copy")
  /\ ncopies < MaxSoftCopies
  /\ ncopies' = ncopies + 1
  /\ sac' = soft_copy(sac)
  /\ err' = "none"
  /\ obs' = NoObs

UpdateCritics ==
  /\ Call("update_critics")
  /\ \E r \in update_critics(sac) : sac' = r.sac /\ err' = r.err
  /\ obs' = NoObs
  /\ UNCHANGED ncopies

CalcActorLoss ==
  /\ Call("calc_actor_loss")
  /\ \E st \in 0 .. MaxInput, a \in 0 .. MaxInput, lp \in 0 .. MaxInput :
       obs' = [kind |-> "actor_loss", state |-> st, action |-> a, log_prob |-> lp,
               ret |-> calc_actor_loss(sac, st, evaluate(a, lp))]
  /\ err' = "none"
  /\ UNCHANGED <<sac, ncopies>>

UpdateActor ==
  /\ Call("update_actor")
  /\ LET r == update_actor(sac) IN sac' = r.sac /\ err' = r.err
  /\ obs' = NoObs
  /\ UNCHANGED ncopies

UpdateEntropy ==
  /\ Call("update_entropy")
  /\ \E r \in update_entropy(sac) : sac' = r.sac /\ err' = r.err
  /\ obs' = NoObs
  /\ UNCHANGED ncopies

CycleObs(o, rewards, step0, w) ==
  [kind |-> "cycle", trace |-> o.trace, critic_rewards |-> o.critic_rewards,
   rewards |-> rewards, step |-> step0, writer |-> w]

HasSoftCopy(trace) == \E i \in 1 .. Len(trace) : trace[i] = "soft_copy"

\* a client calls update_SAC on a replay whose sample returns these rewards
UpdateSAC ==
  /\ Call("update_SAC")
  /\ ncopies < MaxSoftCopies
  /\ \E rewards \in RewardBatches, step0 \in {0, 1}, w \in Writers :
       \E o \in update_SAC(sac, rewards, step0, w) :
         /\ sac' = o.sac
         /\ err' = o.err
         /\ obs' = CycleObs(o, rewards, step0, w)
         /\ ncopies' = IF HasSoftCopy(o.trace) THEN ncopies + 1 ELSE ncopies

NextSAC ==
  \/ InitOpt
  \/ FreezeTgtNetworks
  \/ SoftCopy
  \/ UpdateCritics
  \/ CalcActorLoss
  \/ UpdateActor
  \/ UpdateEntropy

SpecSAC == InitSAC /\ [][NextSAC]_vars

\* ------ SpecCritic: a client moves the targets, then asks for the loss
CalcCriticLoss ==
  /\ Call("calc_critic_loss")
  /\ \E st \in 0 .. MaxInput, a0 \in 0 .. MaxInput, r \in Rewards, nst \in 0 .. MaxInput,
        done \in 0 .. 1, a \in 0 .. MaxInput, lp \in 0 .. MaxInput :
       obs' = [kind |-> "critic_loss", reward |-> r, next_state |-> nst, done |-> done,
               action |-> a, log_prob |-> lp,
               ret |-> calc_critic_loss(sac, st, a0, r, nst, done, evaluate(a, lp))]
  /\ err' = "none"
  /\ UNCHANGED <<sac, ncopies>>

NextCritic ==
  \/ FreezeTgtNetworks
  \/ SoftCopy
  \/ CalcCriticLoss

SpecCritic == InitSAC /\ [][NextCritic]_vars

\* --------------- SpecCycle: a client creates the optimizers, then updates
NextCycle ==
  \/ InitOpt
  \/ UpdateSAC

SpecCycle == InitSAC /\ [][NextCycle]_vars


\* ---------------------------------------------------------- Spec: train
\* the mean of the last ScoreWindow scores exceeds the threshold
LastScores(sc) == SubSeq(sc, IF Len(sc) > ScoreWindow THEN Len(sc) - ScoreWindow + 1 ELSE 1, Len(sc))

MeanExceeds(sc, threshold) == SumSeq(LastScores(sc)) > threshold * Len(LastScores(sc))

ShouldUpdate_geq(n, batch_size) == n >= batch_size

\* if len(replay) > args.batch_size
ShouldUpdate(n, batch_size) == n > batch_size

BatchRewards(batch) == [i \in 1 .. Len(batch) |-> batch[i].reward]

Init ==
  /\ ConstructedSAC({DefaultTau})
  /\ op = "__init__"
  /\ err = "none"
  /\ obs = NoObs
  /\ nops = 0
  /\ ncopies = 0
  /\ replay = ReplayBuffer(ReplayCapacity)
  /\ inserted = <<>>
  /\ pc = "episode"
  /\ episode = 0
  /\ time = 0
  /\ step = 0
  /\ scores = <<>>
  /\ \E n \in 0 .. MaxEpisodes, b \in 1 .. MaxBatch, d \in {"None", "runs"} :
       /\ args = [num_episodes |-> n, batch_size |-> b, log_dir |-> d]
       /\ writer = IF d # "None" THEN "SummaryWriter" ELSE "None"
  /\ reward_threshold \in 0 .. MaxThreshold

\* for episode in range(args.num_episodes): state = env.reset()
StartEpisode ==
  /\ pc = "episode"
  /\ IF episode < args.num_episodes
     THEN pc' = "step" /\ time' = 0
     ELSE pc' = "plot" /\ time' = time
  /\ op' = "env.reset"
  /\ UNCHANGED <<sac, err, obs, nops, ncopies, bufVars, episode, step, scores, args,
                 writer, reward_threshold>>

\* get_action, env.step, store_transition, rewards.append, if done: break
EnvStep ==
  /\ pc = "step"
  /\ \E reward \in Rewards, done \in BOOLEAN :
       LET id == Len(inserted) + 1 IN
       /\ replay' = store_transition(replay, [id |-> id, reward |-> reward, done |-> done])
       /\ inserted' = Append(inserted, id)
       /\ sac' = [sac EXCEPT !.actor_rewards = @ + 1]
       /\ pc' = IF done THEN "score" ELSE "update"
  /\ op' = "env.step"
  /\ UNCHANGED <<err, obs, nops, ncopies, episode, time, step, scores, args, writer,
                 reward_threshold>>

\* the next iteration of for time in range(1000), or its end
NextTime ==
  /\ step' = step + 1
  /\ IF time + 1 < TimeLimit
     THEN time' = time + 1 /\ pc' = "step"
     ELSE time' = time /\ pc' = "score"

\* if len(replay) > args.batch_size: update_SAC(...); step += 1
Update ==
  /\ pc = "update"
  /\ IF ShouldUpdate(len(replay), args.batch_size)
     THEN \E rewards \in {BatchRewards(b) : b \in sample(replay, args.batch_size)} :
            \E o \in update_SAC(sac, rewards, step, writer) :
              /\ sac' = o.sac
              /\ err' = o.err
              /\ obs' = CycleObs(o, rewards, step, writer)
              /\ op' = "update_SAC"
              /\ IF o.err # "none"
                 THEN pc' = "aborted" /\ UNCHANGED <<step, time>>
                 ELSE NextTime
     ELSE /\ NextTime
          /\ op' = "skip_update"
          /\ UNCHANGED <<sac, err, obs>>
  /\ UNCHANGED <<nops, ncopies, bufVars, episode, scores, args, writer, reward_threshold>>

\* scores.append(time); break when the mean score exceeds the threshold
EndEpisode ==
  /\ pc = "score"
  /\ scores' = Append(scores, time)
  /\ IF MeanExceeds(scores', reward_threshold)
     THEN pc' = "plot" /\ episode' = episode
     ELSE pc' = "episode" /\ episode' = episode + 1
  /\ op' = "scores.append"
  /\ UNCHANGED <<sac, err, obs, nops, ncopies, bufVars, time, step, args, writer,
                 reward_threshold>>

\* plot_success(sac.actor): train returns
PlotSuccess ==
  /\ pc = "plot"
  /\ pc' = "done"
  /\ op' = "plot_success"
  /\ UNCHANGED <<sac, err, obs, nops, ncopies, bufVars, episode, time, step, scores,
                 args, writer, reward_threshold>>

Next ==
  \/ StartEpisode
  \/ EnvStep
  \/ Update
  \/ EndEpisode
  \/ PlotSuccess

Spec == Init /\ [][Next]_vars

\* ------------------------------------- SpecReplay: one ReplayBuffer alone
InitReplay ==
  /\ sac = SACInit([i \in 1 .. NumParams |-> BiasInit], [i \in 1 .. NumParams |-> BiasInit],
                   [i \in 1 .. NumParams |-> BiasInit], [i \in 1 .. NumParams |-> BiasInit],
                   DefaultTau)
  /\ op = "ReplayBuffer"
  /\ err = "none"
  /\ obs = NoObs
  /\ nops = 0
  /\ ncopies = 0
  /\ \E cap \in 1 .. MaxCapacity : replay = ReplayBuffer(cap)
  /\ inserted = <<>>
  /\ pc = "idle"
  /\ episode = 0
  /\ time = 0
  /\ step = 0
  /\ scores = <<>>
  /\ args = [num_episodes |-> 0, batch_size |-> 1, log_dir |-> "None"]
  /\ writer = "None"
  /\ reward_threshold = 0

Range(q) == {q[i] : i \in 1 .. Len(q)}

\* store_transition with an id not used before
StoreTransition ==
  /\ Len(inserted) < MaxIds
  /\ \E id \in (1 .. MaxIds) \ Range(inserted) :
       /\ replay' = store_transition(replay, [id |-> id, reward |-> 0, done |-> FALSE])
       /\ inserted' = Append(inserted, id)
  /\ op' = "store_transition"
  /\ obs' = NoObs
  /\ UNCHANGED <<sac, err, nops, ncopies, trainVars>>

\* sample(batch_size) with batch_size <= len()
Sample ==
  /\ \E k \in 1 .. Min(len(replay), MaxBatch) :
       \E batch \in sample(replay, k) :
         obs' = [kind |-> "sample", batch_size |-> k, batch |-> batch]
  /\ op' = "sample"
  /\ UNCHANGED <<sac, err, nops, ncopies, bufVars, trainVars>>

NextReplay ==
  \/ StoreTransition
  \/ Sample

SpecReplay == InitReplay /\ [][NextReplay]_vars


\* ================================================================ claims
TargetsEqualTrained ==
  /\ sac.tgt_q1 = RatVec(sac.soft_q1)
  /\ sac.tgt_q2 = RatVec(sac.soft_q2)

TargetsFrozen == \A n \in {"tgt_q1", "tgt_q2"} : ~sac.tgt_requires_grad[n]

\* C1: right after SAC.__init__, before any other method has run, every
\* target parameter equals the corresponding trained parameter and the
\* target parameters are marked non-trainable.
C1_HardCopiedAtConstruction ==
  op = "__init__" => TargetsEqualTrained /\ TargetsFrozen

\* new = (1 - tau) * old + tau * trained: both sides brought to the common
\* denominator old[2] * tau[2]
IsBlend(new, old, trained, tau0) ==
  LET d == old[2] * tau0[2]
      n == old[1] * (tau0[2] - tau0[1]) + trained * tau0[1] * old[2]
  IN /\ d % new[2] = 0
     /\ new[1] * (d \div new[2]) = n

\* C2: soft_copy sets every target parameter to
\* (1 - tau) * old_target + tau * trained, leaves the trained parameters
\* unchanged, and with tau = 1 makes the target equal to the trained one.
C2_SoftCopyBlends ==
  [][op' = "soft_copy" =>
       /\ \A i \in 1 .. NumParams :
            /\ IsBlend(sac'.tgt_q1[i], sac.tgt_q1[i], sac.soft_q1[i], sac.tau)
            /\ IsBlend(sac'.tgt_q2[i], sac.tgt_q2[i], sac.soft_q2[i], sac.tau)
       /\ sac'.soft_q1 = sac.soft_q1
       /\ sac'.soft_q2 = sac.soft_q2
       /\ (sac.tau[1] = sac.tau[2] =>
             /\ \A i \in 1 .. NumParams :
                  /\ sac'.tgt_q1[i][1] = sac.soft_q1[i] * sac'.tgt_q1[i][2]
                  /\ sac'.tgt_q2[i][1] = sac.soft_q2[i] * sac'.tgt_q2[i][2])]_vars

\* a soft copy with tau < 1 that left a target strictly between its old
\* value and the trained value
C2_Witness ==
  /\ op = "soft_copy"
  /\ sac.tau[1] < sac.tau[2]
  /\ sac.tgt_q1[1][2] > 1

\* C3: the min_Q term of calc_actor_loss is the minimum of soft_q1 and
\* soft_q2 evaluated on (state, sampled action).
C3_ActorLossUsesBothCritics ==
  obs.kind = "actor_loss" =>
    obs.ret.min_q = Min(SoftQForward(sac.soft_q1, obs.state, obs.action),
                        SoftQForward(sac.soft_q2, obs.state, obs.action))

AllEqual(rs) == \A i \in 1 .. Len(rs) : rs[i] = rs[1]

\* the number handed to the critic loss equals the sampled reward r; a
\* normalized reward with std = 0 is 0 / eps = 0
SameNumber(x, r) ==
  IF x.normalized THEN x.var = 0 /\ x.num = 0 /\ r = 0 ELSE x.num = r

\* C4: when every reward of the sampled batch is identical, the rewards
\* handed to the critic loss equal the sampled rewards.
C4_DegenerateRewardsUnchanged ==
  (obs.kind = "cycle" /\ AllEqual(obs.rewards)) =>
    \A i \in 1 .. Len(obs.rewards) : SameNumber(obs.critic_rewards[i], obs.rewards[i])

StoredIds == {replay.memory[i].id : i \in 1 .. len(replay)}

LastIds(n) == {inserted[i] : i \in (Len(inserted) - n + 1) .. Len(inserted)}

\* C5: after N store_transition calls with distinct ids on a buffer of
\* capacity C, len() = min(N, C) and the stored ids are the min(N, C) most
\* recently inserted ones.
C5_RingKeepsMostRecent ==
  /\ len(replay) = Min(Len(inserted), replay.capacity)
  /\ len(replay) <= replay.capacity
  /\ StoredIds = LastIds(Min(Len(inserted), replay.capacity))

\* more than capacity transitions were stored, so some were overwritten
C5_Witness ==
  /\ op = "store_transition"
  /\ Len(inserted) > replay.capacity + 1
  /\ replay.capacity > 1

\* C6: train calls update_SAC, hence replay.sample(batch_size), only when
\* the buffer holds strictly more than batch_size transitions.
C6_SampleOnlyAboveBatchSize ==
  [][op' = "update_SAC" =>
       /\ len(replay) > args.batch_size
       /\ Len(obs'.rewards) = args.batch_size]_vars

C6_Witness ==
  /\ op = "update_SAC"
  /\ pc # "idle"
  /\ len(replay) = args.batch_size + 1

\* C7: with no telemetry sink (writer is None) every update cycle
\* completes without raising.
C7_NoSinkIsSafeNoOp ==
  (obs.kind = "cycle" /\ obs.writer = "None") => err = "none"

\* C8: train ends only when the rolling mean score exceeds the reward
\* threshold or the episode budget is exhausted, and no episode runs past
\* the step limit.
C8_TerminatesOnThresholdOrBudget ==
  /\ pc \in {"plot", "done", "aborted"} =>
       \/ scores # <<>> /\ MeanExceeds(scores, reward_threshold)
       \/ episode = args.num_episodes
  /\ time < TimeLimit

TargetNames == {"tgt_q1", "tgt_q2"}

HeldByOptimizers(s) ==
  s.opts.q1_opt \cup s.opts.q2_opt \cup s.opts.actor_opt \cup s.opts.entropy_opt

\* C9: no optimizer holds a target parameter; update_critics, update_actor
\* and update_entropy leave the target parameters unchanged; they change
\* only in the hard copy and in soft_copy.
C9_TargetsNeverOptimized ==
  /\ [](HeldByOptimizers(sac) \cap TargetNames = {})
  /\ [][/\ op' \in {"update_critics", "update_actor", "update_entropy"} =>
             sac'.tgt_q1 = sac.tgt_q1 /\ sac'.tgt_q2 = sac.tgt_q2
        /\ (sac'.tgt_q1 # sac.tgt_q1 \/ sac'.tgt_q2 # sac.tgt_q2) =>
             \/ op' \in {"_freeze_tgt_networks", "soft_copy"}
             \/ op' = "update_SAC" /\ HasSoftCopy(obs'.trace)]_vars

\* the optimizers exist, a critic step changed soft_q1, the target did not follow
C9_Witness ==
  /\ op = "update_critics"
  /\ err = "none"
  /\ sac.opts.created
  /\ sac.tgt_q1 # RatVec(sac.soft_q1)

FullCycle ==
  <<"sample", "calc_critic_loss", "update_critics", "calc_actor_loss", "update_actor",
    "calc_entropy_tuning_loss", "update_entropy", "soft_copy">>

\* C10: an update cycle (here: of an agent whose optimizers exist) runs
\* sample, critic losses, critic update, actor loss, actor update,
\* temperature update, soft_copy in this order and to completion.
C10_CycleRunsToCompletion ==
  (obs.kind = "cycle" /\ sac.opts.created) =>
    /\ Len(obs.trace) >= Len(FullCycle)
    /\ SubSeq(obs.trace, 1, Len(FullCycle)) = FullCycle


\* the target the claim describes: the target critics see the sampled
\* action a, the entropy term uses its log-probability lp
ClaimedTarget(s, reward, next_state, done, a, lp) ==
  LET min_q == RatMin(TgtQForward(s.tgt_q1, next_state, a),
                      TgtQForward(s.tgt_q2, next_state, a))
      soft == RatAdd(min_q, ToRat(-(s.alpha * lp)))
  IN RatAdd(ToRat(reward), RatMul(ToRat(1 - done), RatMul(Gamma, soft)))

\* C11: target_q = reward + (1 - done) * gamma * (min(tgt_q1(s', a'),
\* tgt_q2(s', a')) - alpha * next_log_prob), with a' the action and
\* next_log_prob the log-probability returned by evaluate; with done = 1
\* the target is the reward.
C11_CriticTarget ==
  obs.kind = "critic_loss" =>
    /\ obs.ret.target_q = ClaimedTarget(sac, obs.reward, obs.next_state, obs.done,
                                        obs.action, obs.log_prob)
    /\ obs.done = 1 => obs.ret.target_q = ToRat(obs.reward)

====
